---------------------------- MODULE Spec2Model ----------------------------
(***************************************************************************)
(* A model of the roboportfolio rebalancing helper.                        *)
(*                                                                         *)
(*   roboadvisor.py            Plan, PlanCompleter, MarketDataGetter,      *)
(*                             AccountInfo, OrderMaker and the main run    *)
(*   roboadvisor_client_api.py Stock.update_latest_price                   *)
(*   trader.py                 PortfolioUpdater and the tick callbacks     *)
(*                                                                         *)
(* Numbers.  The program computes in floats; the model computes the same   *)
(* quantities exactly, in integers:                                        *)
(*   - an allocation a stands for the fraction a / AllocUnit;              *)
(*   - prices, share counts and cash are whole numbers;                    *)
(*   - exact_shares_to_purchase is the rational num / den, kept as the     *)
(*     record [num, den] with den > 0;                                     *)
(*   - money_left is kept in units of 1 / AllocUnit of the currency, so    *)
(*     that the fractional remainders of the floor step are integers.      *)
(* SpecFloat is the calculator with every operation rounded as binary      *)
(* floating point rounds it, at a narrower mantissa than the program's.    *)
(***************************************************************************)
EXTENDS Integers, Sequences, FiniteSets, TLC

VARIABLES
    pc,              \* where the run is
    plan_file,       \* the allocation column of the plan file, one value per row
    investments,     \* Plan.investments: a sequence of Investment records
    available_cash,  \* the argument of calculate_shares_to_purchase
    money_left,      \* the local money_left, in 1/AllocUnit units
    idxs,            \* the visiting order of the leftover pass
    pos,             \* the position of the leftover loop in idxs
    randomly,        \* the argument randomly of the leftover pass in progress
    direct,          \* the leftover pass was called by the caller, not by the calculator
    call,            \* how many times the calculator was called on the plan
    prev,            \* what the previous call of the calculator returned
    error,           \* the exception that ended the run, or "none"
    \* the main run of roboadvisor.py
    do_order,        \* args.order
    connected,       \* ib.isConnected()
    portfolio,       \* CurrentPortfolio.portfolio: symbol -> PortfolioItem
    cp,              \* the position of the loop of complete_plan
    orders,          \* the calls of the brokerage's order functions, in order
    oi,              \* the position of the order loop
    \* MarketDataGetter.get_market_value
    ticker,          \* the Ticker of the request
    elapsed,         \* time.time() - s, in sleeps of 0.5 s
    timeout,         \* the argument timeout, in sleeps of 0.5 s
    market_value,    \* what get_market_value returned
    \* Stock.update_latest_price
    max_tries,       \* the argument max_tries
    tries,           \* the snapshots the loop has asked for and found without a price
    stock_price,     \* Stock.price
    \* PortfolioUpdater (trader.py)
    positions,           \* the positions the brokerage reported
    market_data_functions, \* Client.market_data_functions: request id -> position
    positions_received,  \* the list of get_price_for_positions, as indices of positions
    delivered,           \* the lists handed to the callback of get_price_for_positions
    portfolio_positions, \* Portfolio.positions
    reader_alive,        \* the thread that runs the client's message loop is running
    price_ticks          \* per position, the LAST and CLOSE ticks its callback has handled

calcVars == <<pc, plan_file, investments, available_cash, money_left, idxs, pos,
              randomly, direct, call, prev, error>>
mainVars == <<do_order, connected, portfolio, cp, orders, oi>>
tickerVars == <<ticker, elapsed, timeout, market_value>>

snapVars == <<max_tries, tries, stock_price>>
streamVars == <<positions, market_data_functions, positions_received, delivered,
                portfolio_positions, reader_alive, price_ticks>>
otherVars == <<snapVars, streamVars>>

vars == <<calcVars, mainVars, tickerVars, otherVars>>

\* ------------------------------------------------------------- bounds

AllocUnit == 4
MaxPrice == 3
MaxShares == 2
MaxCash == 10

\* The significant bits of a float of the model (the program's have 53; an odd
\* number, so that a third rounds the way it does in the program), and the
\* binary places below 1.0 that a float may use.
MantissaBits == 13
FracBits == 20

\* Not-a-number, where the program holds a float NaN.
NaN == -1

\* The default of the argument timeout of get_market_value, 10 s, in sleeps of
\* 0.5 s.
DefaultTimeout == 20

\* The model stops a wait that has lasted this many sleeps.
MaxElapsed == 22

\* The timeouts a caller of get_market_value may pass, in sleeps of 0.5 s.
MaxTimeout == 3

\* The default of the argument max_tries of update_latest_price.
DefaultMaxTries == 10

\* The values of max_tries a caller of update_latest_price may pass.
MaxTries == 12

\* The number of snapshots the loop of update_latest_price asks for.
LoopTries == 10

\* The positions the brokerage may report.
MaxPositions == 2

\* The LAST and CLOSE ticks the brokerage may send for one request.
MaxTicks == 2

\* The stocks a plan file may name, in the order of its rows.
Symbols == <<"AAPL", "MSFT">>

\* ------------------------------------------------------------- values

IsNaN(x) == x = NaN

\* A field that is None is the empty sequence; a field that holds v is <<v>>.
None == <<>>
Some(v) == <<v>>
IsNone(x) == x = None
Val(x) == x[1]

RECURSIVE SumSeq(_)
SumSeq(s) == IF s = <<>> THEN 0 ELSE Head(s) + SumSeq(Tail(s))

Range(s) == {s[i] : i \in DOMAIN s}

Perms(n) == {p \in [1..n -> 1..n] : Range(p) = 1..n}

\* @dataclass Investment: the fields after stock and allocation default to None.
Investment(symbol, allocation) ==
    [stock |-> symbol, allocation |-> allocation, num_shares |-> None,
     market_price |-> None, exact_shares_to_purchase |-> None,
     shares_to_purchase |-> None]

\* The rows a plan file may hold: a prefix of Symbols, each with an allocation.
PlanRows ==
    UNION {[1..n -> 0..AllocUnit] : n \in 0..Len(Symbols)}

\* ------------------------------------------------------------- Plan

\* No validation at construction.
AllocationSumRaises_Never(invs) == FALSE

\* A validation that only rejects a sum below 1.0.
AllocationSumRaises_Below(invs) ==
    SumSeq([i \in DOMAIN invs |-> invs[i].allocation]) < AllocUnit

\* Plan.validate_allocations: TRUE when it raises.
AllocationSumRaises(invs) ==
    SumSeq([i \in DOMAIN invs |-> invs[i].allocation]) # AllocUnit

\* Plan.calculate_total_stock_value
calculate_total_stock_value(invs) ==
    SumSeq([i \in DOMAIN invs |-> Val(invs[i].market_price) * Val(invs[i].num_shares)])

\* Plan.calculate_total_value
calculate_total_value(invs, cash) ==
    calculate_total_stock_value(invs) + cash

\* exact_shares_to_purchase of one investment:
\*   allocation * total_value / market_price - num_shares
\* as the rational (a * total - AllocUnit * p * n) / (AllocUnit * p).
ExactShares(inv, total_value) ==
    [num |-> inv.allocation * total_value
             - AllocUnit * Val(inv.market_price) * Val(inv.num_shares),
     den |-> AllocUnit * Val(inv.market_price)]

\* Rounding up instead of down.
Floor_Ceiling(x) == -((-x.num) \div x.den)

\* int(math.floor(x)) of the rational x
Floor(x) == x.num \div x.den

\* market_price * (exact - floor(exact)), in 1/AllocUnit units
Remainder(x) == x.num % x.den

\* Adding the floor to the shares_to_purchase an earlier call left.
FloorInvestment_Accumulate(inv, total_value) ==
    LET exact == ExactShares(inv, total_value)
        before == IF IsNone(inv.shares_to_purchase) THEN 0 ELSE Val(inv.shares_to_purchase)
    IN  [inv EXCEPT !.exact_shares_to_purchase = Some(exact),
                    !.shares_to_purchase = Some(before + Floor(exact))]

\* The body of the loop of calculate_shares_to_purchase, for one investment.
FloorInvestment(inv, total_value) ==
    LET exact == ExactShares(inv, total_value)
    IN  [inv EXCEPT !.exact_shares_to_purchase = Some(exact),
                    !.shares_to_purchase = Some(Floor(exact))]

\* The orders random.shuffle may leave in idxs; range(len) when randomly is False.
LeftoverOrders(n, rnd) ==
    IF rnd THEN Perms(n) ELSE {[i \in 1..n |-> i]}

\* A strict comparison.
Affordable_Strict(inv, money) == Val(inv.market_price) * AllocUnit < money

\* The test of the leftover loop: investment.market_price <= money_left
Affordable(inv, money) == Val(inv.market_price) * AllocUnit <= money

\* ------------------------------------------------------------- actions

\* PlanReader.read_plan: one Investment per row, then Plan(investments), whose
\* constructor validates the allocations.
ReadPlan ==
    /\ pc = "read_plan"
    /\ UNCHANGED otherVars
    /\ LET invs == [i \in DOMAIN plan_file |-> Investment(Symbols[i], plan_file[i])]
       IN  IF AllocationSumRaises(invs)
           THEN /\ pc' = "aborted"
                /\ error' = "AllocationSum"
                /\ UNCHANGED investments
           ELSE /\ pc' = "complete_plan"
                /\ investments' = invs
                /\ UNCHANGED error
    /\ UNCHANGED <<plan_file, available_cash, money_left, idxs, pos, randomly, direct,
                   call, prev>>
    /\ UNCHANGED <<mainVars, tickerVars>>

\* The caller fills in num_shares and market_price of every investment and
\* names the available cash.
Snapshot ==
    /\ pc = "complete_plan"
    /\ UNCHANGED otherVars
    /\ \E prices \in [DOMAIN investments -> 1..MaxPrice],
          shares \in [DOMAIN investments -> 0..MaxShares],
          cash \in 0..MaxCash :
         /\ investments' = [i \in DOMAIN investments |->
                [investments[i] EXCEPT !.market_price = Some(prices[i]),
                                       !.num_shares = Some(shares[i])]]
         /\ available_cash' = Some(cash)
    /\ pc' = "calculate"
    /\ UNCHANGED <<plan_file, money_left, idxs, pos, randomly, direct, call, prev, error>>
    /\ UNCHANGED <<mainVars, tickerVars>>

\* The entry of calculate_leftover_shares_to_purchase(money, rnd): idxs is built
\* and, when randomly is True, shuffled.
EnterLeftover(money, rnd) ==
    /\ money_left' = money
    /\ randomly' = rnd
    /\ \E order \in LeftoverOrders(Len(investments), rnd) : idxs' = order
    /\ pos' = 1
    /\ pc' = "leftover"

\* Plan.calculate_shares_to_purchase up to and including its call of the
\* leftover pass, which it makes with randomly left at its default, True.  With
\* a NaN price the total value and every desired value are NaN: the first
\* investment gets a NaN exact_shares_to_purchase and math.floor raises.
FloorStep ==
    /\ pc = "calculate"
    /\ UNCHANGED otherVars
    /\ IF \E i \in DOMAIN investments : IsNaN(Val(investments[i].market_price))
       THEN /\ investments' = [investments EXCEPT
                                  ![1].exact_shares_to_purchase = Some(NaN)]
            /\ pc' = "aborted"
            /\ error' = "FloorOfNaN"
            /\ UNCHANGED <<money_left, randomly, idxs, pos>>
       ELSE /\ LET total_value == calculate_total_value(investments, Val(available_cash))
               IN  /\ investments' = [i \in DOMAIN investments |->
                                         FloorInvestment(investments[i], total_value)]
                   /\ EnterLeftover(SumSeq([i \in DOMAIN investments |->
                                         Remainder(ExactShares(investments[i], total_value))]),
                                    TRUE)
            /\ UNCHANGED error
    /\ call' = call + 1
    /\ direct' = FALSE
    /\ UNCHANGED <<plan_file, available_cash, prev>>
    /\ UNCHANGED <<mainVars, tickerVars>>

\* An iteration that adds the share and forgets to deduct its price.
LeftoverStep_NoDeduct ==
    /\ pc = "leftover"
    /\ UNCHANGED otherVars
    /\ pos <= Len(idxs)
    /\ LET idx == idxs[pos]
           investment == investments[idx]
       IN  IF Affordable(investment, money_left)
           THEN investments' = [investments EXCEPT ![idx].shares_to_purchase =
                                   Some(Val(investment.shares_to_purchase) + 1)]
           ELSE UNCHANGED investments
    /\ pos' = pos + 1
    /\ pc' = IF pos = Len(idxs) THEN "done" ELSE "leftover"
    /\ UNCHANGED <<plan_file, available_cash, money_left, idxs, randomly, direct, call,
                   prev, error>>
    /\ UNCHANGED <<mainVars, tickerVars>>

\* One iteration of the loop of calculate_leftover_shares_to_purchase; the
\* pass returns after the last one.
LeftoverStep ==
    /\ pc = "leftover"
    /\ UNCHANGED otherVars
    /\ pos <= Len(idxs)
    /\ LET idx == idxs[pos]
           investment == investments[idx]
       IN  IF Affordable(investment, money_left)
           THEN /\ investments' = [investments EXCEPT ![idx].shares_to_purchase =
                                      Some(Val(investment.shares_to_purchase) + 1)]
                /\ money_left' = money_left - Val(investment.market_price) * AllocUnit
           ELSE UNCHANGED <<investments, money_left>>
    /\ pos' = pos + 1
    /\ pc' = IF pos = Len(idxs) THEN "done" ELSE "leftover"
    /\ UNCHANGED <<plan_file, available_cash, idxs, randomly, direct, call, prev, error>>
    /\ UNCHANGED <<mainVars, tickerVars>>

\* The caller calls the calculator a second time on the same plan, with the
\* same available cash.
CallAgain ==
    /\ pc = "done"
    /\ UNCHANGED otherVars
    /\ call = 1
    /\ ~direct
    /\ prev' = Some([idxs |-> idxs,
                     shares |-> [i \in DOMAIN investments |->
                                    Val(investments[i].shares_to_purchase)]])
    /\ pc' = "calculate"
    /\ UNCHANGED <<plan_file, investments, available_cash, money_left, idxs, pos,
                   randomly, direct, call, error>>
    /\ UNCHANGED <<mainVars, tickerVars>>

\* The caller calls calculate_leftover_shares_to_purchase itself, on a plan
\* the calculator has filled in, with an amount and a value of randomly of
\* its own.
CallLeftover ==
    /\ pc = "done"
    /\ UNCHANGED otherVars
    /\ call = 1
    /\ ~direct
    /\ \E money \in 0..MaxCash, rnd \in BOOLEAN : EnterLeftover(money * AllocUnit, rnd)
    /\ direct' = TRUE
    /\ UNCHANGED <<plan_file, investments, available_cash, call, prev, error>>
    /\ UNCHANGED <<mainVars, tickerVars>>

\* The state before the plan is read.
NoPlan ==
    /\ investments = <<>>
    /\ available_cash = None
    /\ money_left = 0
    /\ idxs = <<>>
    /\ pos = 0
    /\ randomly = TRUE
    /\ direct = FALSE
    /\ call = 0
    /\ prev = None
    /\ error = "none"

\* No run of the main program: its state stays as it is here.
NoMain ==
    /\ do_order = FALSE
    /\ connected = FALSE
    /\ portfolio = <<>>
    /\ cp = 0
    /\ orders = <<>>
    /\ oi = 0

\* No price request in progress.
NoTicker ==
    /\ ticker = None
    /\ elapsed = 0
    /\ market_value = None

\* No call of update_latest_price.
NoSnapshot ==
    /\ max_tries = DefaultMaxTries
    /\ tries = 0
    /\ stock_price = None

\* No PortfolioUpdater at work.
NoStream ==
    /\ positions = <<>>
    /\ market_data_functions = <<>>
    /\ positions_received = <<>>
    /\ delivered = <<>>
    /\ portfolio_positions = <<>>
    /\ reader_alive = FALSE
    /\ price_ticks = <<>>

CalcInit ==
    /\ pc = "read_plan"
    /\ plan_file \in PlanRows
    /\ NoPlan
    /\ NoMain
    /\ NoTicker
    /\ timeout = DefaultTimeout
    /\ NoSnapshot
    /\ NoStream

CalcNext == ReadPlan \/ Snapshot \/ FloorStep \/ LeftoverStep \/ CallAgain \/ CallLeftover

SpecCalc == CalcInit /\ [][CalcNext]_vars

\* ------------------------------------------------------------- the calculator in floats

\* A float is kept as a whole number of units of 2^-FracBits, and every
\* operation of the float arithmetic returns the exact result rounded to the
\* nearest float, ties to even, as IEEE 754 does.  A float has MantissaBits
\* significant bits (the program's floats have 53); the inputs of the model
\* (allocations in quarters, small whole prices, shares and cash) and their
\* sums are floats without any rounding, as they are in the program.
RECURSIVE Pow2(_)
Pow2(n) == IF n = 0 THEN 1 ELSE 2 * Pow2(n - 1)

\* 1.0, in units
One == Pow2(FracBits)

\* The spacing of the floats around the positive rational num / den (in
\* units): the least power of two q with num / den < 2^MantissaBits * q.
RECURSIVE Quantum(_, _, _)
Quantum(num, den, q) ==
    IF num < Pow2(MantissaBits) * den * q THEN q ELSE Quantum(num, den, 2 * q)

\* The float nearest to the rational num / den (in units, den > 0), ties to even.
FloatRound(num, den) ==
    LET abs == IF num < 0 THEN -num ELSE num
        d   == den * Quantum(abs, den, 1)
        f   == abs \div d
        r   == abs % d
        m   == IF 2 * r > d \/ (2 * r = d /\ f % 2 = 1) THEN f + 1 ELSE f
        v   == m * (d \div den)
    IN  IF num < 0 THEN -v ELSE v

\* exact_shares_to_purchase of one investment, lines 105 to 108:
\*   desired_value = allocation * total_value
\*   desired_num_shares = desired_value / market_price
\*   exact_shares_to_purchase = desired_num_shares - num_shares
FloatExactShares(inv, total_value) ==
    LET desired_value == FloatRound(inv.allocation * total_value * One, AllocUnit)
        desired_num_shares == FloatRound(desired_value, Val(inv.market_price))
    IN  FloatRound(desired_num_shares - Val(inv.num_shares) * One, 1)

\* int(math.floor(x)) of the float x
FloatFloor(x) == x \div One

\* market_price * (exact_shares_to_purchase - shares_to_purchase), line 110
FloatRemainder(inv, exact) ==
    FloatRound(Val(inv.market_price)
                  * FloatRound(exact - FloatFloor(exact) * One, 1), 1)

\* money_left after the first n iterations of the loop of lines 104 to 110:
\* 0.0, and one rounded addition per investment, in plan order.
RECURSIVE FloatMoneyLeft(_, _, _)
FloatMoneyLeft(invs, total_value, n) ==
    IF n = 0 THEN 0
    ELSE FloatRound(FloatMoneyLeft(invs, total_value, n - 1)
                       + FloatRemainder(invs[n], FloatExactShares(invs[n], total_value)),
                    1)

\* The body of the loop of calculate_shares_to_purchase, for one investment.
FloatFloorInvestment(inv, total_value) ==
    LET exact == FloatExactShares(inv, total_value)
    IN  [inv EXCEPT !.exact_shares_to_purchase = Some(exact),
                    !.shares_to_purchase = Some(FloatFloor(exact))]

\* Plan.calculate_shares_to_purchase up to and including its call of the
\* leftover pass, in floats; money_left is in units of 2^-FracBits.
FloatFloorStep ==
    /\ pc = "calculate"
    /\ UNCHANGED otherVars
    /\ LET total_value == calculate_total_value(investments, Val(available_cash))
       IN  /\ investments' = [i \in DOMAIN investments |->
                                 FloatFloorInvestment(investments[i], total_value)]
           /\ EnterLeftover(FloatMoneyLeft(investments, total_value, Len(investments)),
                            TRUE)
    /\ call' = call + 1
    /\ direct' = FALSE
    /\ UNCHANGED <<plan_file, available_cash, prev, error>>
    /\ UNCHANGED <<mainVars, tickerVars>>

\* One iteration of the loop of calculate_leftover_shares_to_purchase, in
\* floats.
FloatLeftoverStep ==
    /\ pc = "leftover"
    /\ UNCHANGED otherVars
    /\ pos <= Len(idxs)
    /\ LET idx == idxs[pos]
           investment == investments[idx]
       IN  IF Val(investment.market_price) * One <= money_left
           THEN /\ investments' = [investments EXCEPT ![idx].shares_to_purchase =
                                      Some(Val(investment.shares_to_purchase) + 1)]
                /\ money_left' =
                      FloatRound(money_left - Val(investment.market_price) * One, 1)
           ELSE UNCHANGED <<investments, money_left>>
    /\ pos' = pos + 1
    /\ pc' = IF pos = Len(idxs) THEN "done" ELSE "leftover"
    /\ UNCHANGED <<plan_file, available_cash, idxs, randomly, direct, call, prev, error>>
    /\ UNCHANGED <<mainVars, tickerVars>>

FloatNext == ReadPlan \/ Snapshot \/ FloatFloorStep \/ FloatLeftoverStep

SpecFloat == CalcInit /\ [][FloatNext]_vars

\* ------------------------------------------------------------- the main run

\* What the brokerage may report as the account's portfolio: the items of some
\* of the symbols, each with a market price and a position.
PortfolioItems == [marketPrice : 1..MaxPrice, position : 1..MaxShares]
Portfolios ==
    UNION {[held -> PortfolioItems] : held \in SUBSET Range(Symbols)}

\* CurrentPortfolio.contains
contains(symbol) == symbol \in DOMAIN portfolio

\* CurrentPortfolio.get, for a symbol the portfolio contains
get(symbol) == portfolio[symbol]

\* A Ticker, as far as get_market_value reads it: marketPrice() and last.
Tickers == [marketPrice : {NaN} \cup 1..MaxPrice, last : {NaN} \cup 1..MaxPrice]

\* order places a real order whatever test is.
OrderCall_AlwaysPlace(investment, test) ==
    [function |-> "placeOrder",
     symbol |-> investment.stock,
     action |-> "BUY",
     totalQuantity |-> Val(investment.shares_to_purchase)]

\* The call of the brokerage that OrderMaker.order makes for an investment: a
\* market order to buy floor(shares_to_purchase), as a what-if order when test
\* is True and as a real order otherwise.
OrderCall(investment, test) ==
    [function |-> IF test THEN "whatIfOrder" ELSE "placeOrder",
     symbol |-> investment.stock,
     action |-> "BUY",
     totalQuantity |-> Val(investment.shares_to_purchase)]

\* ib.connect: the connection is made, or connect raises.
Connect ==
    /\ pc = "connect"
    /\ UNCHANGED otherVars
    /\ \/ /\ connected' = TRUE
          /\ pc' = "portfolio"
          /\ UNCHANGED error
       \/ /\ pc' = "aborted"
          /\ error' = "ConnectFailed"
          /\ UNCHANGED connected
    /\ UNCHANGED <<plan_file, investments, available_cash, money_left, idxs, pos,
                   randomly, direct, call, prev>>
    /\ UNCHANGED <<do_order, portfolio, cp, orders, oi, tickerVars>>

\* The connection to the brokerage is lost while the run goes on.
Disconnect ==
    /\ pc \notin {"connect", "aborted", "finished"}
    /\ UNCHANGED otherVars
    /\ connected
    /\ connected' = FALSE
    /\ UNCHANGED <<calcVars, do_order, portfolio, cp, orders, oi, tickerVars>>

\* CurrentPortfolio(connector=ib)
GetPortfolio ==
    /\ pc = "portfolio"
    /\ UNCHANGED otherVars
    /\ IF connected
       THEN /\ \E p \in Portfolios : portfolio' = p
            /\ pc' = "read_plan"
            /\ UNCHANGED error
       ELSE /\ pc' = "aborted"
            /\ error' = "MustBeConnected"
            /\ UNCHANGED portfolio
    /\ UNCHANGED <<plan_file, investments, available_cash, money_left, idxs, pos,
                   randomly, direct, call, prev>>
    /\ UNCHANGED <<do_order, connected, cp, orders, oi, tickerVars>>

\* The investment of the loop of complete_plan gets its price and its shares.
Completed(market_price, num_shares) ==
    /\ investments' = [investments EXCEPT ![cp].market_price = Some(market_price),
                                          ![cp].num_shares = Some(num_shares)]
    /\ cp' = cp + 1
    /\ pc' = IF cp = Len(investments) THEN "cash" ELSE "complete_plan"

\* One iteration of the loop of PlanCompleter.complete_plan, up to the return
\* of reqMktData when the symbol is not in the portfolio.
CompleteHolding ==
    /\ pc = "complete_plan"
    /\ UNCHANGED otherVars
    /\ cp <= Len(investments)
    /\ IF contains(investments[cp].stock)
       THEN /\ Completed(get(investments[cp].stock).marketPrice,
                         get(investments[cp].stock).position)
            /\ UNCHANGED <<error, ticker, elapsed>>
       ELSE IF ~connected
            THEN /\ pc' = "aborted"
                 /\ error' = "MustBeConnected"
                 /\ UNCHANGED <<investments, cp, ticker, elapsed>>
            ELSE /\ \E t \in Tickers : ticker' = Some(t)
                 /\ elapsed' = 0
                 /\ pc' = "polling"
                 /\ UNCHANGED <<investments, cp, error>>
    /\ UNCHANGED <<plan_file, available_cash, money_left, idxs, pos, randomly, direct,
                   call, prev>>
    /\ UNCHANGED <<do_order, connected, portfolio, orders, oi, timeout, market_value>>

\* One test of the loop of MarketDataGetter.get_market_value: the price is
\* there and is returned, or the time is up and the function raises, or it
\* sleeps 0.5 s and reads the ticker again.
Poll ==
    /\ pc = "polling"
    /\ UNCHANGED otherVars
    /\ IF IsNaN(Val(ticker).marketPrice) /\ IsNaN(Val(ticker).last)
       THEN IF 0 < timeout /\ timeout <= elapsed
            THEN /\ pc' = "aborted"
                 /\ error' = "PriceTimeout"
                 /\ UNCHANGED <<ticker, elapsed, market_value>>
            ELSE /\ elapsed < MaxElapsed
                 /\ elapsed' = elapsed + 1
                 /\ \E t \in Tickers : ticker' = Some(t)
                 /\ UNCHANGED <<pc, error, market_value>>
       ELSE /\ market_value' = Some(Val(ticker).marketPrice)
            /\ pc' = "returned"
            /\ UNCHANGED <<ticker, elapsed, error>>
    /\ UNCHANGED <<plan_file, investments, available_cash, money_left, idxs, pos,
                   randomly, direct, call, prev>>
    /\ UNCHANGED <<mainVars, timeout>>

\* complete_plan stores what get_market_value returned, with num_shares 0; the
\* locals of the call are gone.
StoreMarketValue ==
    /\ pc = "returned"
    /\ UNCHANGED otherVars
    /\ Completed(Val(market_value), 0)
    /\ ticker' = None
    /\ elapsed' = 0
    /\ market_value' = None
    /\ UNCHANGED <<plan_file, available_cash, money_left, idxs, pos, randomly, direct,
                   call, prev, error>>
    /\ UNCHANGED <<do_order, connected, portfolio, orders, oi, timeout>>

\* AccountInfo.available_cash: the first AvailableFunds value in USD; the
\* index [0] raises when there is none.
AvailableCash ==
    /\ pc = "cash"
    /\ UNCHANGED otherVars
    /\ \/ /\ \E funds \in 0..MaxCash : available_cash' = Some(funds)
          /\ pc' = "calculate"
          /\ UNCHANGED error
       \/ /\ pc' = "aborted"
          /\ error' = "NoFunds"
          /\ UNCHANGED available_cash
    /\ UNCHANGED <<plan_file, investments, money_left, idxs, pos, randomly, direct,
                   call, prev>>
    /\ UNCHANGED <<mainVars, tickerVars>>

\* One iteration of the order loop of the main program.  With --order it calls
\* order_maker.order(investment, test=False): qualifyContracts and placeOrder
\* raise when the connection is lost; otherwise the order is placed, and the
\* brokerage acknowledges it or rejects it.  Nothing catches what order raises.
OrderStep ==
    /\ pc = "done"
    /\ UNCHANGED otherVars
    /\ oi <= Len(investments)
    /\ IF ~do_order
       THEN /\ UNCHANGED <<orders, error>>
            /\ oi' = oi + 1
            /\ pc' = IF oi = Len(investments) THEN "finished" ELSE "done"
       ELSE IF ~connected
            THEN /\ orders' = Append(orders,
                        [call |-> OrderCall(investments[oi], FALSE), outcome |-> "raised"])
                 /\ pc' = "aborted"
                 /\ error' = "OrderFailed"
                 /\ UNCHANGED oi
            ELSE /\ \E outcome \in {"acknowledged", "rejected"} :
                      orders' = Append(orders,
                        [call |-> OrderCall(investments[oi], FALSE), outcome |-> outcome])
                 /\ oi' = oi + 1
                 /\ pc' = IF oi = Len(investments) THEN "finished" ELSE "done"
                 /\ UNCHANGED error
    /\ UNCHANGED <<plan_file, investments, available_cash, money_left, idxs, pos,
                   randomly, direct, call, prev>>
    /\ UNCHANGED <<do_order, connected, portfolio, cp, tickerVars>>

\* The start of the main program: parse_args has read --order.
Init ==
    /\ pc = "connect"
    /\ plan_file \in PlanRows
    /\ NoPlan
    /\ do_order \in BOOLEAN
    /\ connected = FALSE
    /\ portfolio = <<>>
    /\ cp = 1
    /\ orders = <<>>
    /\ oi = 1
    /\ NoTicker
    /\ timeout = DefaultTimeout
    /\ NoSnapshot
    /\ NoStream

Next ==
    \/ Connect
    \/ Disconnect
    \/ GetPortfolio
    \/ ReadPlan
    \/ CompleteHolding
    \/ Poll
    \/ StoreMarketValue
    \/ AvailableCash
    \/ FloorStep
    \/ LeftoverStep
    \/ OrderStep

Spec == Init /\ [][Next]_vars

\* ------------------------------------------------------------- price polling

\* One turn of the loop of Stock.update_latest_price: the snapshot holds no
\* last price and the loop sleeps 0.5 s, or it holds one that float() reads
\* and the price is returned, or one that float() rejects and the ValueError
\* is raised again.  After the last turn the function falls off its end and
\* returns None.
UpdateLatestPriceTry ==
    /\ pc = "snapshot_loop"
    /\ tries < LoopTries
    /\ \/ /\ tries' = tries + 1
          /\ pc' = IF tries + 1 = LoopTries THEN "returned_none" ELSE "snapshot_loop"
          /\ UNCHANGED <<stock_price, error>>
       \/ /\ \E price \in 1..MaxPrice : stock_price' = Some(price)
          /\ pc' = "returned"
          /\ UNCHANGED <<tries, error>>
       \/ /\ pc' = "aborted"
          /\ error' = "ValueError"
          /\ UNCHANGED <<tries, stock_price>>
    /\ UNCHANGED <<plan_file, investments, available_cash, money_left, idxs, pos,
                   randomly, direct, call, prev>>
    /\ UNCHANGED <<mainVars, tickerVars, max_tries, streamVars>>

\* A caller is in get_market_value, after reqMktData, with some timeout, or in
\* update_latest_price, before the loop, with some max_tries.
PollInit ==
    /\ plan_file = <<>>
    /\ NoPlan
    /\ NoMain
    /\ market_value = None
    /\ elapsed = 0
    /\ tries = 0
    /\ stock_price = None
    /\ NoStream
    /\ \/ /\ pc = "polling"
          /\ ticker \in {Some(t) : t \in Tickers}
          /\ timeout \in 0..MaxTimeout
          /\ max_tries = DefaultMaxTries
       \/ /\ pc = "snapshot_loop"
          /\ ticker = None
          /\ timeout = DefaultTimeout
          /\ max_tries \in 1..MaxTries

PollNext == Poll \/ UpdateLatestPriceTry

SpecPoll == PollInit /\ [][PollNext]_vars

\* ------------------------------------------------------------- trader.py

\* The request ids get_id_from_contract may give: hash(contract) % 2**15 of
\* contracts built one per position, so two positions may get the same id.
RequestIds == 1..MaxPositions

\* The tick types a price request is answered with, as TickTypeEnum.to_str
\* names them; "BID" stands for every type that is neither LAST nor CLOSE.
TickTypes == {"LAST", "CLOSE", "BID"}

\* @dataclass Position, as reported by the position callback: no price yet.
Position(conId) == [conId |-> conId, current_price |-> None]

\* register_market_data_callback for each position in turn: a later
\* registration under the same id replaces the earlier one.
RECURSIVE Registered(_, _)
Registered(ids, n) ==
    IF n = 0 THEN <<>>
    ELSE LET before == Registered(ids, n - 1)
         IN  [id \in DOMAIN before \cup {ids[n]} |->
                 IF id = ids[n] THEN n ELSE before[id]]

\* The call in get_price binds self.
CancelContractRequestRaises_Bound == FALSE

\* get_price calls MarketDataGetter.cancel_contract_request(contract=contract)
\* on the class, with no instance: the call raises TypeError (self is missing).
CancelContractRequestRaises == TRUE

\* The position callback: update_positions appends the reported position.
PositionEvent ==
    /\ pc = "positions"
    /\ Len(positions) < MaxPositions
    /\ positions' = Append(positions, Position(Len(positions) + 1))
    /\ UNCHANGED <<calcVars, mainVars, tickerVars, snapVars>>
    /\ UNCHANGED <<market_data_functions, positions_received, delivered,
                   portfolio_positions, reader_alive, price_ticks>>

\* The positionEnd callback: done_updating_positions hands the positions to
\* update_portfolio, which calls get_price_for_positions: an empty
\* positions_received, and one price request registered per position.
PositionEnd ==
    /\ pc = "positions"
    /\ \E ids \in [DOMAIN positions -> RequestIds] :
          market_data_functions' = Registered(ids, Len(positions))
    /\ positions_received' = <<>>
    /\ price_ticks' = [p \in DOMAIN positions |-> 0]
    /\ pc' = "pricing"
    /\ UNCHANGED <<plan_file, investments, available_cash, money_left, idxs, pos,
                   randomly, direct, call, prev, error>>
    /\ UNCHANGED <<mainVars, tickerVars, snapVars>>
    /\ UNCHANGED <<positions, delivered, portfolio_positions, reader_alive>>

\* A tick for a registered request id, handled on the reader thread:
\* handle_market_data -> get_result -> get_price.  A LAST or CLOSE tick sets
\* the position's price and calls cancel_contract_request; what follows that
\* call runs only if it returns: all_positions_retrieved appends the position
\* and, when the list is as long as the list of positions, add_positions adds
\* the list to the portfolio and calls the callback.  An exception leaves the
\* handler; whether the message loop survives it is the library's affair.
Tick ==
    /\ pc = "pricing"
    /\ reader_alive
    /\ \E id \in DOMAIN market_data_functions, tick_type \in TickTypes,
          value \in 1..MaxPrice :
         LET p == market_data_functions[id]
         IN  IF tick_type \in {"LAST", "CLOSE"}
             THEN /\ price_ticks[p] < MaxTicks
                  /\ price_ticks' = [price_ticks EXCEPT ![p] = @ + 1]
                  /\ positions' = [positions EXCEPT ![p].current_price = Some(value)]
                  /\ IF CancelContractRequestRaises
                     THEN /\ reader_alive' \in BOOLEAN
                          /\ UNCHANGED <<positions_received, delivered,
                                         portfolio_positions>>
                     ELSE /\ positions_received' = Append(positions_received, p)
                          /\ IF Len(positions_received') = Len(positions)
                             THEN /\ portfolio_positions' =
                                        portfolio_positions \o positions_received'
                                  /\ delivered' = Append(delivered, positions_received')
                             ELSE UNCHANGED <<delivered, portfolio_positions>>
                          /\ UNCHANGED reader_alive
             ELSE UNCHANGED streamVars
    /\ UNCHANGED <<calcVars, mainVars, tickerVars, snapVars, market_data_functions>>

\* PortfolioUpdater.update_portfolio has registered the position callbacks and
\* called reqPositions; the reader thread runs.
StreamInit ==
    /\ pc = "positions"
    /\ plan_file = <<>>
    /\ NoPlan
    /\ NoMain
    /\ NoTicker
    /\ timeout = DefaultTimeout
    /\ NoSnapshot
    /\ positions = <<>>
    /\ market_data_functions = <<>>
    /\ positions_received = <<>>
    /\ delivered = <<>>
    /\ portfolio_positions = <<>>
    /\ reader_alive = TRUE
    /\ price_ticks = <<>>

StreamNext == PositionEvent \/ PositionEnd \/ Tick

SpecStream == StreamInit /\ [][StreamNext]_vars

\* ------------------------------------------------------------- claims

PlanOrder(n) == [i \in 1..n |-> i]

SharesToPurchase(i) == Val(investments[i].shares_to_purchase)
MarketPrice(i) == Val(investments[i].market_price)

\* The sum over the holdings of shares_to_purchase * market_price.
TotalCost == SumSeq([i \in DOMAIN investments |-> SharesToPurchase(i) * MarketPrice(i)])

\* The calculator (not a leftover pass the caller started) has returned.
Calculated == pc = "done" /\ ~direct

\* The allocations of the plan file do not sum to 1.0.
InvalidFile == SumSeq(plan_file) # AllocUnit

\* C1: a plan file whose allocations do not sum to 1.0 ends the run in
\* read_plan with the allocation-sum error; no Plan is built from it, the
\* calculator is never called and no purchase is computed.  A Plan that exists
\* has allocations that sum to 1.0.
C1_InvalidPlanRejected ==
    /\ (InvalidFile /\ pc # "read_plan") =>
          /\ pc = "aborted"
          /\ error = "AllocationSum"
          /\ investments = <<>>
          /\ call = 0
    /\ pc \notin {"read_plan", "aborted"} =>
          SumSeq([i \in DOMAIN investments |-> investments[i].allocation]) = AllocUnit

\* Scenario 2 in the model's units: two rows that sum to one unit less than 1.0.
C1_Witness ==
    /\ pc = "aborted"
    /\ error = "AllocationSum"
    /\ Len(plan_file) = 2
    /\ SumSeq(plan_file) = AllocUnit - 1

\* C2: the calculator never returns a negative shares_to_purchase.
C2_NeverNegative ==
    Calculated => \A i \in DOMAIN investments : SharesToPurchase(i) >= 0

\* C3: when the calculator has returned, the total cost of the purchases does
\* not exceed the available cash by more than the price of one share, whichever
\* holding's price is taken and whichever order the leftover pass visited in.
C3_BoundedOverspend ==
    Calculated =>
        \A i \in DOMAIN investments : TotalCost <= Val(available_cash) + MarketPrice(i)

\* The leftover pass bought a share and the purchases use up the cash.
C3_Witness ==
    /\ Calculated
    /\ TotalCost = Val(available_cash)
    /\ Val(available_cash) > 0
    /\ \E i \in DOMAIN investments :
          SharesToPurchase(i) = Floor(Val(investments[i].exact_shares_to_purchase)) + 1

\* C4: two calls of the calculator in a row on the same plan with the same
\* inputs, both visiting the leftover pass in plan order, return the same
\* shares_to_purchase for every holding.
C4_Idempotent ==
    (/\ Calculated
     /\ call = 2
     /\ idxs = PlanOrder(Len(investments))
     /\ Val(prev).idxs = PlanOrder(Len(investments)))
    => \A i \in DOMAIN investments : SharesToPurchase(i) = Val(prev).shares[i]

\* A second call in plan order after a first one that left non-zero purchases,
\* one of them topped up by the leftover pass.
C4_Witness ==
    /\ Calculated
    /\ call = 2
    /\ Len(investments) = 2
    /\ idxs = PlanOrder(2)
    /\ Val(prev).idxs = PlanOrder(2)
    /\ Val(prev).shares[1] > 0
    /\ Val(prev).shares[2] < 0
    /\ \E i \in DOMAIN investments :
          SharesToPurchase(i) = Floor(Val(investments[i].exact_shares_to_purchase)) + 1

\* Scenario 1 with 100 of the currency as the unit: AAPL 0.5 at price 1 with 0
\* shares, MSFT 0.5 at price 2 with 0 shares, cash 10.
Scenario1 ==
    /\ Len(investments) = 2
    /\ \A i \in 1..2 : /\ 2 * investments[i].allocation = AllocUnit
                       /\ investments[i].num_shares = Some(0)
    /\ investments[1].stock = "AAPL" /\ investments[1].market_price = Some(1)
    /\ investments[2].stock = "MSFT" /\ investments[2].market_price = Some(2)
    /\ available_cash = Some(10)
    /\ ~direct

\* C5: in scenario 1 the floor step gives AAPL 5 and MSFT 2 with 100 (one unit)
\* of money left, and the calculation in plan order ends with AAPL 6, MSFT 2.
C5_Scenario1 ==
    Scenario1 =>
        /\ (pc = "leftover" /\ pos = 1) =>
              /\ SharesToPurchase(1) = 5
              /\ SharesToPurchase(2) = 2
              /\ money_left = 1 * AllocUnit
        /\ (pc = "done" /\ idxs = PlanOrder(2)) =>
              /\ SharesToPurchase(1) = 6
              /\ SharesToPurchase(2) = 2

C5_Witness == Scenario1 /\ pc = "done" /\ call = 1 /\ idxs = PlanOrder(2)

\* The shares the leftover pass in progress (or just over) has added to
\* holding i when the pass was started by the calculator.
Gain(i) == SharesToPurchase(i) - Floor(Val(investments[i].exact_shares_to_purchase))

\* The holdings the leftover loop has visited so far.
Visited == {idxs[k] : k \in 1..(pos - 1)}

\* C10, the states of the pass: idxs holds every holding exactly once, and is
\* the plan order when randomly is False; the money left is never negative; a
\* holding not visited yet has gained nothing and a visited one at most one
\* share.
C10_PassState ==
    pc \in {"leftover", "done"} =>
        /\ idxs \in Perms(Len(investments))
        /\ (~randomly => idxs = PlanOrder(Len(investments)))
        /\ pos \in 1..(Len(idxs) + 1)
        /\ (pc = "done") <=> (pos = Len(idxs) + 1)
        /\ money_left >= 0
        /\ ~direct => \A i \in DOMAIN investments :
                         Gain(i) \in (IF i \in Visited THEN {0, 1} ELSE {0})

\* C10, the steps of the pass: a step visits the next holding of idxs and no
\* other, adds exactly one share to it and deducts its price if and only if the
\* price is at most the money left, and moves on without ever going back.
C10_PassStep ==
    (pc = "leftover") =>
        LET idx == idxs[pos]
            price == MarketPrice(idx) * AllocUnit
        IN  /\ idxs' = idxs
            /\ pos' = pos + 1
            /\ \A i \in DOMAIN investments : i # idx => investments'[i] = investments[i]
            /\ IF price <= money_left
               THEN /\ Val(investments'[idx].shares_to_purchase) = SharesToPurchase(idx) + 1
                    /\ money_left' = money_left - price
               ELSE /\ investments'[idx] = investments[idx]
                    /\ money_left' = money_left

\* C10: the leftover pass is a greedy single pass over the holdings.
C10_GreedySinglePass == [](C10_PassState) /\ [][C10_PassStep]_vars

\* A pass in plan order in which the first holding took the money that the
\* second, also affordable before, can no longer afford.
C10_Witness ==
    /\ pc = "done"
    /\ ~randomly
    /\ Len(investments) = 2
    /\ Gain(1) = 1
    /\ Gain(2) = 0
    /\ MarketPrice(2) <= MarketPrice(1)
    /\ money_left > 0

\* The errors that end a run before the order loop.
DataErrors ==
    {"ConnectFailed", "MustBeConnected", "AllocationSum", "PriceTimeout", "NoFunds",
     "FloorOfNaN"}

\* Every holding of the plan has its price and its share count, and the
\* calculator has computed its purchase from them.
DataComplete ==
    /\ investments # <<>>
    /\ SumSeq([i \in DOMAIN investments |-> investments[i].allocation]) = AllocUnit
    /\ \A i \in DOMAIN investments :
          /\ ~IsNone(investments[i].market_price)
          /\ ~IsNaN(Val(investments[i].market_price))
          /\ ~IsNone(investments[i].num_shares)
          /\ ~IsNone(investments[i].shares_to_purchase)
    /\ ~IsNone(available_cash)

\* C6: in a run of the main program an order is made only after the plan was
\* validated, every holding got its price and shares and the cash was found;
\* a run that one of these ends makes no order at all.
C6_NoOrderFromIncompleteData ==
    /\ orders # <<>> => (DataComplete /\ error \notin DataErrors)
    /\ error \in DataErrors => (pc = "aborted" /\ orders = <<>>)
    /\ InvalidFile => orders = <<>>

\* Scenario 3: with --order, the price of the second holding times out after
\* the first holding was completed.
C6_Witness ==
    /\ pc = "aborted"
    /\ error = "PriceTimeout"
    /\ do_order
    /\ cp = 2
    /\ ~IsNone(investments[1].market_price)
    /\ orders = <<>>

\* The run of the main program is over.
RunOver == pc \in {"aborted", "finished"}

\* C7: an order that is rejected or fails does not end the order loop: when
\* the run is over, every holding of the plan has had its order.
C7_FailedOrderIsolated ==
    (RunOver /\ \E k \in DOMAIN orders : orders[k].outcome \in {"rejected", "raised"})
    => Len(orders) = Len(investments)

\* C8: a price lookup is a bounded wait that ends with a price or an error:
\* get_market_value does not poll past its timeout, update_latest_price does
\* not ask for more snapshots than max_tries, and neither returns without a
\* price.
C8_BoundedWait ==
    /\ pc = "polling" => elapsed <= timeout
    /\ pc = "snapshot_loop" => tries < max_tries
    /\ pc # "returned_none"
    /\ pc = "returned" => (~IsNone(stock_price) \/ ~IsNone(market_value))

Placed == {k \in DOMAIN orders : orders[k].call.function = "placeOrder"}

\* C11: a real order needs a request for it.  OrderMaker.order, for every
\* investment the run has calculated, calls placeOrder when test is False and
\* whatIfOrder, and nothing else, when test is True; and the main program
\* places an order only when --order was given: without the flag the log of
\* orders stays empty in every state of every run.
C11_RealOrderOnlyOnRequest ==
    /\ \A i \in DOMAIN investments :
          ~IsNone(investments[i].shares_to_purchase) =>
             /\ OrderCall(investments[i], FALSE).function = "placeOrder"
             /\ OrderCall(investments[i], TRUE).function = "whatIfOrder"
    /\ Placed # {} => do_order
    /\ ~do_order => orders = <<>>

\* A run without --order that calculated a purchase for a holding and went
\* through the whole order loop without placing anything.
C11_Witness ==
    /\ pc = "finished"
    /\ ~do_order
    /\ Len(investments) = 2
    /\ \E i \in DOMAIN investments : SharesToPurchase(i) > 0
    /\ oi = Len(investments) + 1
    /\ orders = <<>>

\* The calculator, in floats, is in its leftover pass or has returned.
FloatCalculating == pc \in {"leftover", "done"} /\ ~direct

\* C12: cash is conserved.  The money_left handed to the leftover pass is not
\* negative and is the available cash less the cost of the floored purchases;
\* from then on the cost of all purchases plus the money left is the available
\* cash exactly, the money left is never negative, and so the total cost does
\* not exceed the available cash.
C12_CashConserved ==
    FloatCalculating =>
        /\ money_left >= 0
        /\ TotalCost * One + money_left = Val(available_cash) * One
        /\ TotalCost <= Val(available_cash)

\* The positions were all reported and every one of them has had its price
\* request answered with a LAST or CLOSE tick.
AllAnswered ==
    /\ pc = "pricing"
    /\ \A p \in DOMAIN positions : price_ticks[p] >= 1

\* C13: update_portfolio completes, once.  The completion callback is invoked
\* by the handler of the tick that answers the last price request, so once
\* every request of the reported positions (none, when the list is empty) has
\* been answered the callback has been invoked; it is never invoked a second
\* time; and when it is invoked the portfolio holds each reported position
\* exactly once.
C13_CompletesExactlyOnce ==
    /\ AllAnswered => Len(delivered) = 1
    /\ Len(delivered) <= 1
    /\ delivered # <<>> =>
          /\ Len(portfolio_positions) = Len(positions)
          /\ Range(portfolio_positions) = DOMAIN positions

=============================================================================
